---- MODULE Spec2Model ----
(***************************************************************************)
(* Draft Master game sessions of Nexus Commander                           *)
(* (src/components/draft_master_game.py) on top of the draft predictor     *)
(* (src/components/drafting_assistant.py).                                 *)
(*                                                                         *)
(* Champions are the integers 1..n; the sequence all_champions is the      *)
(* iteration order of DraftingAssistant.all_champions.  Statistics of the  *)
(* champion graph are fixed-point integers in units of 1/Unit; scores that *)
(* the code obtains by dividing by a count common to all candidates of one *)
(* call are kept multiplied by that count, so that comparisons are exact.  *)
(***************************************************************************)
EXTENDS Integers, Sequences, FiniteSets, TLC

\* ------------------------------------------------------------------------
\* Bounds of the model
\* ------------------------------------------------------------------------

\* size of the largest champion pool a corpus provides
MaxPool == 42

\* number of start_new_game calls
MaxGames == 2

\* number of deviations of a run: the inputs and random draws that differ from
\* the default ones, and the sessions started after the first one
MaxDeviations == 1

\* ------------------------------------------------------------------------
\* Generic helpers
\* ------------------------------------------------------------------------

None == -1

Min(a, b) == IF a < b THEN a ELSE b

Max(a, b) == IF a > b THEN a ELSE b

Range(s) == {s[i] : i \in 1..Len(s)}

\* s[:n]
Take(s, n) == SubSeq(s, 1, Min(n, Len(s)))

\* [c for c in s if c not in taken]
Filter(s, taken) == SelectSeq(s, LAMBDA c : c \notin taken)

RECURSIVE SumUpTo(_, _)
SumUpTo(s, n) == IF n = 0 THEN 0 ELSE s[n] + SumUpTo(s, n - 1)

\* sum(s)
SumSeq(s) == SumUpTo(s, Len(s))

\* a sort that is ascending by key
SortDescending_Ascending(s, key) ==
    LET n == Len(s)
        pos == SubSeq([i \in 1..n |->
                         Cardinality({j \in 1..n : key[j] < key[i]
                                                   \/ (key[j] = key[i] /\ j < i)}) + 1],
                      1, n)
    IN  SubSeq([p \in 1..n |-> s[CHOOSE i \in 1..n : pos[i] = p]], 1, n)

\* list.sort(key=..., reverse=True): descending by key, equal keys keep their order
SortDescending(s, key) ==
    LET n == Len(s)
        pos == SubSeq([i \in 1..n |->
                         Cardinality({j \in 1..n : key[j] > key[i]
                                                   \/ (key[j] = key[i] /\ j < i)}) + 1],
                      1, n)
    IN  SubSeq([p \in 1..n |-> s[CHOOSE i \in 1..n : pos[i] = p]], 1, n)

\* index of the first entry of recommendations whose champion is c, or None
RankOf(c, recommendations) ==
    IF \E i \in 1..Len(recommendations) : recommendations[i].champion = c
    THEN (CHOOSE i \in 1..Len(recommendations) :
              /\ recommendations[i].champion = c
              /\ \A j \in 1..(i - 1) : recommendations[j].champion # c) - 1
    ELSE None

VARIABLES
    calls,          \* the make_move calls in progress, one per thread
    graph,          \* DraftingAssistant.graph: the ChampionGraph
    all_champions,  \* DraftingAssistant.all_champions in iteration order
    active_games,   \* DraftMasterGame.active_games: game_id -> GameState
    now,            \* the reading of datetime.now()
    result,         \* what the last call returned or raised
    started,        \* number of start_new_game calls so far
    deviations      \* number of deviations so far

vars == <<calls, graph, all_champions, active_games, now, result, started, deviations>>

\* ------------------------------------------------------------------------
\* ChampionGraph: statistics in units of 1/Unit
\* ------------------------------------------------------------------------

\* 1.0 in fixed point: every rate over up to 6 games, its half and its fifth
\* are whole numbers of units
Unit == 1200

\* the statistics of the sessions' graph, built from a corpus that is not
\* enumerated: every champion has games, some pairs have synergies and counters
ReferenceGraph ==
    [statistics |-> "reference", win_rates |-> <<>>, pick_rates |-> <<>>,
     synergies |-> <<>>, counters |-> <<>>]

\* ChampionGraph(): four empty defaultdicts
EmptyGraph ==
    [statistics |-> "built", win_rates |-> <<>>, pick_rates |-> <<>>,
     synergies |-> <<>>, counters |-> <<>>]

\* read of a defaultdict, or dict.get(key, default)
Lookup(map, key, default) == IF key \in DOMAIN map THEN map[key] ELSE default

ReferenceWinRate(c) == (40 + ((c * 7) % 23)) * (Unit \div 100)

ReferencePickRate(c) == ((c * 3) % 11) * (Unit \div 20)

ReferenceSynergy(a, b) ==
    IF a = b THEN 0
    ELSE IF (a + b) % 9 = 0 THEN 3 * (Unit \div 20)
    ELSE IF (a + b) % 13 = 0 THEN -(Unit \div 10)
    ELSE 0

ReferenceCounter(a, b) ==
    IF a = b THEN Unit \div 2
    ELSE IF (2 * a + b) % 7 = 0 THEN 7 * (Unit \div 10)
    ELSE IF (a + 3 * b) % 11 = 0 THEN 3 * (Unit \div 10)
    ELSE Unit \div 2

\* self.win_rates[c]: 0.5 for a champion without games
win_rates(c) ==
    IF graph.statistics = "reference" THEN ReferenceWinRate(c)
    ELSE Lookup(graph.win_rates, c, Unit \div 2)

\* self.pick_rates[c]: 0.0 for a champion without games
pick_rates(c) ==
    IF graph.statistics = "reference" THEN ReferencePickRate(c)
    ELSE Lookup(graph.pick_rates, c, 0)

\* self.synergies[a][b]: 0.0 for a pair without a stored synergy
synergies(a, b) ==
    IF graph.statistics = "reference" THEN ReferenceSynergy(a, b)
    ELSE Lookup(graph.synergies, <<a, b>>, 0)

\* self.counters[a].get(b, 0.5)
counters(a, b) ==
    IF graph.statistics = "reference" THEN ReferenceCounter(a, b)
    ELSE Lookup(graph.counters, <<a, b>>, Unit \div 2)

\* number of unordered pairs of a roster of n champions
PairCount(n) == (n * (n - 1)) \div 2

\* number of entries of s that are x
CountIn(s, x) == Cardinality({k \in 1..Len(s) : s[k] = x})

\* tuple(sorted([a, b]))
SortedPair(a, b) == IF a <= b THEN <<a, b>> ELSE <<b, a>>

\* DraftData.get_team_picks(team_id)
get_team_picks(draft, team_id) ==
    LET own == SelectSeq(draft.picks, LAMBDA p : p.team_id = team_id)
    IN  SubSeq([k \in 1..Len(own) |-> own[k].champion], 1, Len(own))

\* opponent_champs of a team in a match
OpponentChamps(draft, team_id) ==
    LET opp == SelectSeq(draft.picks, LAMBDA p : p.team_id # team_id /\ p.type = "pick")
    IN  SubSeq([k \in 1..Len(opp) |-> opp[k].champion], 1, Len(opp))

\* one entry for every team_stat of every match, in the order of the loops of
\* build_from_matches: the team's picks, its opponents' picks, its result
RECURSIVE Appearances(_)
Appearances(parsed_matches) ==
    IF parsed_matches = <<>> THEN <<>>
    ELSE LET match == Head(parsed_matches)
             n == Len(match.team_stats)
         IN  SubSeq([j \in 1..n |->
                        [team_picks |-> get_team_picks(match.draft,
                                                       match.team_stats[j].team_id),
                         opponent_champs |-> OpponentChamps(match.draft,
                                                            match.team_stats[j].team_id),
                         won |-> match.team_stats[j].win]], 1, n)
             \o Appearances(Tail(parsed_matches))

\* the sorted pairs of team_picks[i] and team_picks[j], i < j
TeamPairs(team_picks) ==
    {SortedPair(team_picks[x[1]], team_picks[x[2]]) :
        x \in {y \in (1..Len(team_picks)) \X (1..Len(team_picks)) : y[1] < y[2]}}

\* number of index pairs i < j of team_picks that hold the two champions of pair
PairsIn(team_picks, pair) ==
    IF pair[1] = pair[2]
    THEN PairCount(CountIn(team_picks, pair[1]))
    ELSE CountIn(team_picks, pair[1]) * CountIn(team_picks, pair[2])

\* sum of counts[n] over the appearances, all of them or the won ones
Tally(apps, counts, wins_only) ==
    SumUpTo([n \in 1..Len(apps) |->
                IF wins_only /\ ~apps[n].won THEN 0 ELSE counts[n]], Len(apps))

\* number of times each appearance holds champion c
ChampionCounts(apps, c) == [n \in 1..Len(apps) |-> CountIn(apps[n].team_picks, c)]

\* number of times each appearance holds the teammate pair
PairCounts(apps, pair) == [n \in 1..Len(apps) |-> PairsIn(apps[n].team_picks, pair)]

\* number of times each appearance holds the matchup (my_champ, opp_champ)
MatchupCounts(apps, matchup) ==
    [n \in 1..Len(apps) |-> CountIn(apps[n].team_picks, matchup[1])
                            * CountIn(apps[n].opponent_champs, matchup[2])]

champion_games(apps, c) == Tally(apps, ChampionCounts(apps, c), FALSE)

champion_wins(apps, c) == Tally(apps, ChampionCounts(apps, c), TRUE)

teammate_pairs(apps, pair) == Tally(apps, PairCounts(apps, pair), FALSE)

teammate_wins(apps, pair) == Tally(apps, PairCounts(apps, pair), TRUE)

matchup_counts(apps, matchup) == Tally(apps, MatchupCounts(apps, matchup), FALSE)

matchup_wins(apps, matchup) == Tally(apps, MatchupCounts(apps, matchup), TRUE)

\* minimum sample size of a synergy and of a counter
MinSample == 3

\* the ChampionGraph g after g.build_from_matches(parsed_matches): synergies
\* against the win rates g holds when the call starts, then counters, win
\* rates and pick rates; entries of keys the corpus does not give are kept
build_from_matches(g, parsed_matches) ==
    LET apps == Appearances(parsed_matches)
        champs == UNION {Range(apps[n].team_picks) : n \in 1..Len(apps)}
        pair_keys == UNION {TeamPairs(apps[n].team_picks) : n \in 1..Len(apps)}
        matchup_keys ==
            UNION {Range(apps[n].team_picks) \X Range(apps[n].opponent_champs) :
                   n \in 1..Len(apps)}
        sampled_pairs == {pair \in pair_keys : teammate_pairs(apps, pair) >= MinSample}
        synergy(pair) ==
            (teammate_wins(apps, pair) * Unit) \div teammate_pairs(apps, pair)
            - (Lookup(g.win_rates, pair[1], Unit \div 2)
               + Lookup(g.win_rates, pair[2], Unit \div 2)) \div 2
        new_synergies ==
            [q \in sampled_pairs \cup {<<pair[2], pair[1]>> : pair \in sampled_pairs} |->
                synergy(SortedPair(q[1], q[2]))]
        new_counters ==
            [matchup \in {m \in matchup_keys : matchup_counts(apps, m) >= MinSample} |->
                (matchup_wins(apps, matchup) * Unit) \div matchup_counts(apps, matchup)]
        new_win_rates ==
            [c \in champs |-> (champion_wins(apps, c) * Unit) \div champion_games(apps, c)]
        total_games == Len(parsed_matches)
        new_pick_rates ==
            [c \in champs |-> (champion_games(apps, c) * Unit) \div total_games]
    IN  [statistics |-> "built",
         win_rates  |-> new_win_rates @@ g.win_rates,
         pick_rates |-> new_pick_rates @@ g.pick_rates,
         synergies  |-> new_synergies @@ g.synergies,
         counters   |-> new_counters @@ g.counters]

\* win rate plus min(pick_rate * 0.2, 0.1)
get_champion_power(c) == win_rates(c) + Min(pick_rates(c) \div 5, Unit \div 10)

\* sum of the synergies over the unordered pairs of champions
SynergySum(champions) ==
    LET n == Len(champions)
    IN  SumUpTo([i \in 1..n |->
                   SumUpTo([k \in 1..(n - i) |->
                              synergies(champions[i], champions[i + k])], n - i)], n)

\* sum of (counter - 0.5) over the cross pairs
CounterSum(my_champions, opponent_champions) ==
    SumUpTo([i \in 1..Len(my_champions) |->
               SumUpTo([k \in 1..Len(opponent_champions) |->
                          counters(my_champions[i], opponent_champions[k]) - Unit \div 2],
                       Len(opponent_champions))],
            Len(my_champions))

\* get_team_synergy(champions) * PairCount
get_team_synergy(champions) ==
    IF Len(champions) <= 1 THEN 0 ELSE SynergySum(champions)

\* get_counter_score(mine, theirs) * Len(mine) * Len(theirs)
get_counter_score(my_champions, opponent_champions) ==
    IF my_champions = <<>> \/ opponent_champions = <<>> THEN 0
    ELSE CounterSum(my_champions, opponent_champions)

\* ------------------------------------------------------------------------
\* DraftPredictor
\* ------------------------------------------------------------------------

EvalLimit == 30

TopN == 10

my_picks_of(draft_state, team) ==
    IF team = 1 THEN draft_state.team1_picks ELSE draft_state.team2_picks

opp_picks_of(draft_state, team) ==
    IF team = 1 THEN draft_state.team2_picks ELSE draft_state.team1_picks

\* sum of the synergies of champion with each of my_picks
SynergyWith(champion, my_picks) ==
    SumUpTo([i \in 1..Len(my_picks) |-> synergies(my_picks[i], champion)], Len(my_picks))

\* total_score of one candidate, times 10 * pairs * matchups of the call.  The
\* sums over test_picks = my_picks + [champion] are the sums over my_picks
\* (my_synergy, my_counter: the same for every candidate of a call) plus the
\* candidate's own terms
PickScore(champion, my_picks, opp_picks, my_synergy, my_counter) ==
    LET pairs      == Max(PairCount(Len(my_picks) + 1), 1)
        matchups   == Max((Len(my_picks) + 1) * Len(opp_picks), 1)
        synergy_score == my_synergy + SynergyWith(champion, my_picks)
        counter_score == my_counter + CounterSum(<<champion>>, opp_picks)
    IN  10 * pairs * matchups * get_champion_power(champion)
        + 3 * matchups * synergy_score
        + 4 * pairs * counter_score

\* threat_score of one candidate, times 10 * number of own picks of the call
BanScore(champion, my_picks) ==
    LET n == Max(Len(my_picks), 1)
        threat_to_us ==
            SumUpTo([i \in 1..Len(my_picks) |-> counters(champion, my_picks[i]) - Unit \div 2],
                    Len(my_picks))
    IN  5 * n * get_champion_power(champion)
        + 3 * threat_to_us
        + 2 * n * pick_rates(champion)

recommend_pick(draft_state, team, available_champions) ==
    LET my_picks   == my_picks_of(draft_state, team)
        opp_picks  == opp_picks_of(draft_state, team)
        candidates == Take(available_champions, EvalLimit)
        my_synergy == get_team_synergy(my_picks)
        my_counter == get_counter_score(my_picks, opp_picks)
        recs == SubSeq([i \in 1..Len(candidates) |->
                          [champion |-> candidates[i],
                           win_rate_impact |->
                               PickScore(candidates[i], my_picks, opp_picks,
                                         my_synergy, my_counter)]],
                       1, Len(candidates))
        key  == SubSeq([i \in 1..Len(recs) |-> recs[i].win_rate_impact], 1, Len(recs))
    IN  Take(SortDescending(recs, key), TopN)

recommend_ban(draft_state, team, available_champions) ==
    LET my_picks   == my_picks_of(draft_state, team)
        candidates == Take(available_champions, EvalLimit)
        recs == SubSeq([i \in 1..Len(candidates) |->
                          [champion |-> candidates[i],
                           win_rate_impact |-> BanScore(candidates[i], my_picks)]],
                       1, Len(candidates))
        key  == SubSeq([i \in 1..Len(recs) |-> recs[i].win_rate_impact], 1, Len(recs))
    IN  Take(SortDescending(recs, key), TopN)

\* win probability as the fraction num / den; means are rounded to Unit / 1000
predict_win_probability(draft_state) ==
    LET t1 == draft_state.team1_picks
        t2 == draft_state.team2_picks
        team_power(picks) ==
            IF picks = <<>> THEN (Unit \div 2) * 1000
            ELSE (SumSeq([i \in 1..Len(picks) |-> get_champion_power(picks[i])]) * 1000)
                     \div Len(picks)
        team_synergy(picks) ==
            IF Len(picks) <= 1 THEN 0
            ELSE (get_team_synergy(picks) * 1000) \div PairCount(Len(picks))
        counter_advantage ==
            IF t1 = <<>> \/ t2 = <<>> THEN 0
            ELSE (get_counter_score(t1, t2) * 1000) \div (Len(t1) * Len(t2))
        team1_score == team_power(t1) + team_synergy(t1) + counter_advantage
        team2_score == team_power(t2) + team_synergy(t2) - counter_advantage
        total == team1_score + team2_score
    IN  IF total > 0
        THEN [team1 |-> [num |-> team1_score, den |-> total],
              team2 |-> [num |-> team2_score, den |-> total]]
        ELSE [team1 |-> [num |-> 1, den |-> 2],
              team2 |-> [num |-> 1, den |-> 2]]

\* ------------------------------------------------------------------------
\* DraftScorer
\* ------------------------------------------------------------------------

optimal_pick == 100

good_pick == 75

acceptable_pick == 50

suboptimal_pick == 25

poor_pick == 0

time_bonus_rule == 10

streak_bonus_rule == 25

first_blood_bonus == 50

combo_master_bonus == 150

\* streak_count of a combo
ComboLength == 3

\* int(base_score * combo_multiplier) with combo_multiplier = 1.5
ComboBonus(base_score) == (base_score * 3) \div 2

\* AchievementBonus with the reward of comeback_kid for draft_god
AchievementBonus_DraftGodAsComeback(ach) ==
    CASE ach = "first_blood"    -> 50
      [] ach = "combo_master"   -> 150
      [] ach = "synergy_king"   -> 200
      [] ach = "counter_strike" -> 175
      [] ach = "speedster"      -> 125
      [] ach = "flawless"       -> 500
      [] ach = "comeback_kid"   -> 250
      [] ach = "draft_god"      -> 250
      [] OTHER                  -> 0

\* self.achievements[ach]['bonus'], 0 for a name that is no achievement
AchievementBonus(ach) ==
    CASE ach = "first_blood"    -> 50
      [] ach = "combo_master"   -> 150
      [] ach = "synergy_king"   -> 200
      [] ach = "counter_strike" -> 175
      [] ach = "speedster"      -> 125
      [] ach = "flawless"       -> 500
      [] ach = "comeback_kid"   -> 250
      [] ach = "draft_god"      -> 300
      [] OTHER                  -> 0

\* BaseScore with the bound of the acceptable ranks off by one
BaseScore_AcceptableBelow5(chosen_rank) ==
    IF chosen_rank = None THEN poor_pick
    ELSE IF chosen_rank = 0 THEN optimal_pick
    ELSE IF chosen_rank <= 2 THEN good_pick
    ELSE IF chosen_rank < 5 THEN acceptable_pick
    ELSE suboptimal_pick

\* base points of a rank (None: the champion is not in the list)
BaseScore(chosen_rank) ==
    IF chosen_rank = None THEN poor_pick
    ELSE IF chosen_rank = 0 THEN optimal_pick
    ELSE IF chosen_rank <= 2 THEN good_pick
    ELSE IF chosen_rank <= 5 THEN acceptable_pick
    ELSE suboptimal_pick

\* NextStreak with a move of rank 1 or 2 extending the streak
NextStreak_GoodPickExtends(chosen_rank, streak_count) ==
    IF chosen_rank = None THEN 0
    ELSE IF chosen_rank <= 2 THEN streak_count + 1
    ELSE 0

\* a streak that a good pick lowers by one without the floor of 0
NextStreak_WithoutFloor(chosen_rank, streak_count) ==
    IF chosen_rank = None THEN 0
    ELSE IF chosen_rank = 0 THEN streak_count + 1
    ELSE IF chosen_rank <= 2 THEN streak_count - 1
    ELSE 0

\* streak_count after the move
NextStreak(chosen_rank, streak_count) ==
    IF chosen_rank = None THEN 0
    ELSE IF chosen_rank = 0 THEN streak_count + 1
    ELSE IF chosen_rank <= 2 THEN Max(0, streak_count - 1)
    ELSE 0

\* a first blood bonus on every move of rank 0
IsFirstBlood_OnEveryPerfectMove(chosen_rank, perfect_moves) == chosen_rank = 0

\* the test for the first blood bonus, perfect_moves being the updated counter
IsFirstBlood(chosen_rank, perfect_moves) == chosen_rank = 0 /\ perfect_moves = 1

\* returns the points, the breakdown and the session with its counters updated
score_pick(chosen_champion, recommendations, time_taken, game_state) ==
    LET chosen_rank == RankOf(chosen_champion, recommendations)
        base_score  == BaseScore(chosen_rank)
        streak      == NextStreak(chosen_rank, game_state.streak_count)
        perfect     == IF chosen_rank = 0 THEN game_state.perfect_moves + 1
                       ELSE game_state.perfect_moves
        isCombo     == chosen_rank = 0 /\ streak >= ComboLength
        combo       == IF isCombo THEN game_state.combo_count + 1
                       ELSE game_state.combo_count
        time_bonus  == Max(0, 30 - time_taken) * time_bonus_rule
        bonuses ==
            (IF IsFirstBlood(chosen_rank, perfect)
               THEN <<[name |-> "First Blood", val |-> first_blood_bonus]>> ELSE <<>>)
            \o (IF isCombo
               THEN <<[name |-> "Combo x3", val |-> ComboBonus(base_score)]>> ELSE <<>>)
            \o (IF isCombo /\ combo = 1
               THEN <<[name |-> "Combo Master", val |-> combo_master_bonus]>> ELSE <<>>)
            \o (IF time_bonus > 200
               THEN <<[name |-> "Speed Bonus", val |-> time_bonus]>> ELSE <<>>)
            \o (IF streak > 0
               THEN <<[name |-> "Streak", val |-> streak * streak_bonus_rule]>> ELSE <<>>)
        total_score == base_score + time_bonus
                       + SumSeq([i \in 1..Len(bonuses) |-> bonuses[i].val])
    IN  [score  |-> total_score,
         extras |-> [bonuses |-> bonuses, streak |-> streak, combo |-> combo,
                     base |-> base_score, time_bonus |-> time_bonus],
         game_state |-> [game_state EXCEPT !.streak_count = streak,
                                           !.perfect_moves = perfect,
                                           !.combo_count = combo]]

\* check_achievements without the tests for an achievement already unlocked
check_achievements_Reawarding(game_state) ==
    LET moves == game_state.moves_evaluated
        flawless == IF game_state.perfect_moves >= 10 THEN <<"flawless">> ELSE <<>>
        total_time == SumSeq([i \in 1..Len(moves) |-> moves[i].time_taken])
        speedster == IF total_time < 15 * Max(1, Len(moves)) /\ Len(moves) >= 10
                     THEN <<"speedster">> ELSE <<>>
        wp == game_state.final_win_probability
        draft_god == IF 10 * wp.num >= 9 * wp.den THEN <<"draft_god">> ELSE <<>>
        new_achievements == flawless \o speedster \o draft_god
    IN  [new_achievements |-> new_achievements,
         game_state |-> [game_state EXCEPT
                            !.achievements = game_state.achievements \o new_achievements]]

\* returns the newly unlocked achievements and the session with them appended
check_achievements(game_state) ==
    LET moves == game_state.moves_evaluated
        flawless == IF game_state.perfect_moves >= 10
                       /\ "flawless" \notin Range(game_state.achievements)
                    THEN <<"flawless">> ELSE <<>>
        total_time == SumSeq([i \in 1..Len(moves) |-> moves[i].time_taken])
        speedster == IF total_time < 15 * Max(1, Len(moves))
                        /\ Len(moves) >= 10
                        /\ "speedster" \notin Range(game_state.achievements)
                     THEN <<"speedster">> ELSE <<>>
        wp == game_state.final_win_probability
        draft_god == IF 10 * wp.num >= 9 * wp.den
                        /\ "draft_god" \notin Range(game_state.achievements)
                     THEN <<"draft_god">> ELSE <<>>
        new_achievements == flawless \o speedster \o draft_god
    IN  [new_achievements |-> new_achievements,
         game_state |-> [game_state EXCEPT
                            !.achievements = game_state.achievements \o new_achievements]]

calculate_final_score(game_state) ==
    LET moves == game_state.moves_evaluated
        base_score == SumSeq([i \in 1..Len(moves) |-> moves[i].score])
        wp == game_state.final_win_probability
        wp_bonus == IF 4 * wp.num > 3 * wp.den THEN 800
                    ELSE IF 20 * wp.num > 13 * wp.den THEN 500
                    ELSE IF 20 * wp.num > 11 * wp.den THEN 300
                    ELSE IF 2 * wp.num > wp.den THEN 100
                    ELSE 0
        achs == game_state.achievements
        achievement_bonus == SumSeq([i \in 1..Len(achs) |-> AchievementBonus(achs[i])])
        total_score == base_score + wp_bonus + achievement_bonus
        rating == IF total_score >= 3000 THEN "Legendary"
                  ELSE IF total_score >= 2000 THEN "Master"
                  ELSE IF total_score >= 1500 THEN "Diamond"
                  ELSE IF total_score >= 1000 THEN "Platinum"
                  ELSE "Gold"
        rank == IF total_score >= 3000 THEN "S+"
                ELSE IF total_score >= 2000 THEN "S"
                ELSE IF total_score >= 1500 THEN "A"
                ELSE IF total_score >= 1000 THEN "B"
                ELSE "C"
    IN  [base_score |-> base_score,
         win_probability_bonus |-> wp_bonus,
         achievement_bonus |-> achievement_bonus,
         total_score |-> total_score,
         rating |-> rating,
         rank |-> rank,
         moves_made |-> Len(moves),
         perfect_moves |-> game_state.perfect_moves,
         combos |-> game_state.combo_count,
         achievements |-> game_state.achievements]

\* ------------------------------------------------------------------------
\* DraftMasterGame
\* ------------------------------------------------------------------------

Difficulties == {"easy", "medium", "hard", "pro"}

TotalPhases == 20

UiLimit == 50

\* list(range(0, 3)) + list(range(5, 7)) + list(range(11, 13))
ban_phases == (0..2) \cup (5..6) \cup (11..12)

ActionType(phase) == IF phase \in ban_phases THEN "ban" ELSE "pick"

\* GameState(...) as start_new_game constructs it
NewGameState(difficulty, clock) ==
    [difficulty |-> difficulty,
     player_picks |-> <<>>, player_bans |-> <<>>,
     ai_picks |-> <<>>, ai_bans |-> <<>>,
     current_phase |-> 0, player_turn |-> TRUE,
     score |-> 0, moves_evaluated |-> <<>>,
     combo_count |-> 0, streak_count |-> 0,
     achievements |-> <<>>, perfect_moves |-> 0,
     started_at |-> clock, completed_at |-> None,
     final_win_probability |-> [num |-> 0, den |-> 1]]

\* Available without the banned champions removed
Available_IgnoringBans(game_state) ==
    LET all_picked == Range(game_state.player_picks) \cup Range(game_state.ai_picks)
    IN  Filter(all_champions, all_picked)

\* the champions no side has picked or banned, in pool order
Available(game_state) ==
    LET all_picked == Range(game_state.player_picks) \cup Range(game_state.ai_picks)
        all_banned == Range(game_state.player_bans) \cup Range(game_state.ai_bans)
    IN  Filter(all_champions, all_picked \cup all_banned)

\* the DraftState get_available_actions builds: the player is team 1
PlayerDraftState(game_state) ==
    [team1_picks |-> game_state.player_picks, team1_bans |-> game_state.player_bans,
     team2_picks |-> game_state.ai_picks, team2_bans |-> game_state.ai_bans]

\* the DraftState _ai_make_move builds: the AI is team 1
AiDraftState(game_state) ==
    [team1_picks |-> game_state.ai_picks, team1_bans |-> game_state.ai_bans,
     team2_picks |-> game_state.player_picks, team2_bans |-> game_state.player_bans]

Recommend(action_type, draft_state, team, available) ==
    IF action_type = "ban"
    THEN recommend_ban(draft_state, team, available)
    ELSE recommend_pick(draft_state, team, available)

\* the recommendations get_available_actions computes before it cuts them to hints
PlayerRecommendations(game_state) ==
    Recommend(ActionType(game_state.current_phase), PlayerDraftState(game_state), 1,
              Available(game_state))

\* number of hints of a difficulty
HintCount(difficulty) ==
    CASE difficulty = "easy"   -> 5
      [] difficulty = "medium" -> 3
      [] difficulty = "hard"   -> 1
      [] OTHER                 -> 0

\* raised: recommendations[0] of an empty list (IndexError) on difficulty hard
get_available_actions(game_state) ==
    LET phase == game_state.current_phase
        recommendations == PlayerRecommendations(game_state)
        hints == IF game_state.difficulty = "pro" THEN <<>>
                 ELSE Take(recommendations, HintCount(game_state.difficulty))
    IN  [raised |-> game_state.difficulty = "hard" /\ recommendations = <<>>,
         action_type |-> ActionType(phase),
         available_champions |-> Take(Available(game_state), UiLimit),
         recommendations |-> hints,
         time_limit |-> 30,
         phase |-> phase]

\* number of leading recommendations the AI draws from
AiBand(difficulty) ==
    CASE difficulty = "easy"   -> 10
      [] difficulty = "medium" -> 5
      [] OTHER                 -> 1

\* the recommendations _ai_make_move computes
AiRecommendations(game_state, action_type) ==
    Recommend(action_type, AiDraftState(game_state), 2, Available(game_state))

\* draw: the index random.choice returns.  raised: IndexError on an empty list
_ai_make_move(game_state, action_type, draw) ==
    LET recommendations == AiRecommendations(game_state, action_type)
        band   == Take(recommendations, AiBand(game_state.difficulty))
        raised == band = <<>>
        chosen == IF raised THEN None ELSE band[draw + 1].champion
    IN  [raised |-> raised,
         champion |-> chosen,
         game_state |->
            IF raised THEN game_state
            ELSE IF action_type = "ban"
            THEN [game_state EXCEPT !.ai_bans = Append(@, chosen)]
            ELSE [game_state EXCEPT !.ai_picks = Append(@, chosen)]]

\* _complete_game with the final score calculated before the achievements
\* are checked
_complete_game_ScoreBeforeAchievements(game_state, clock) ==
    LET final_draft == PlayerDraftState(game_state)
        win_probs == predict_win_probability(final_draft)
        g1 == [game_state EXCEPT !.final_win_probability = win_probs.team1]
        final_score == calculate_final_score(g1)
        ach == check_achievements(g1)
        g2 == ach.game_state
    IN  [game_state |-> [g2 EXCEPT !.completed_at = clock],
         final_score |-> final_score,
         win_probability |-> win_probs.team1,
         new_achievements |-> ach.new_achievements]

\* _complete_game that does not store the final win probability
_complete_game_WithoutWinProbability(game_state, clock) ==
    LET final_draft == PlayerDraftState(game_state)
        win_probs == predict_win_probability(final_draft)
        ach == check_achievements(game_state)
        g2 == ach.game_state
        final_score == calculate_final_score(g2)
    IN  [game_state |-> [g2 EXCEPT !.completed_at = clock],
         final_score |-> final_score,
         win_probability |-> win_probs.team1,
         new_achievements |-> ach.new_achievements]

_complete_game(game_state, clock) ==
    LET final_draft == PlayerDraftState(game_state)
        win_probs == predict_win_probability(final_draft)
        g1 == [game_state EXCEPT !.final_win_probability = win_probs.team1]
        ach == check_achievements(g1)
        g2 == ach.game_state
        final_score == calculate_final_score(g2)
    IN  [game_state |-> [g2 EXCEPT !.completed_at = clock],
         final_score |-> final_score,
         win_probability |-> win_probs.team1,
         new_achievements |-> ach.new_achievements]

\* make_move on a session, actions being what its call of get_available_actions
\* returned or raised: status "error" is the returned {'error': ...}, "raised"
\* an exception that leaves the call (raised_in tells where), "ok" the result
make_move(game_state, actions, champion, time_taken, draw, clock) ==
    LET scored == score_pick(champion, actions.recommendations, time_taken, game_state)
        move_record == [phase |-> game_state.current_phase,
                        action |-> actions.action_type,
                        champion |-> champion,
                        score |-> scored.score,
                        time_taken |-> time_taken,
                        extras |-> scored.extras]
        g1 == [scored.game_state EXCEPT
                  !.moves_evaluated = Append(@, move_record),
                  !.score = @ + scored.score]
        g2 == IF actions.action_type = "ban"
              THEN [g1 EXCEPT !.player_bans = Append(@, champion)]
              ELSE [g1 EXCEPT !.player_picks = Append(@, champion)]
        ai == _ai_make_move(g2, actions.action_type, draw)
        g3 == [ai.game_state EXCEPT !.current_phase = @ + 1]
        game_complete == g3.current_phase >= TotalPhases
        done == _complete_game(g3, clock)
        NoMove == [phase |-> None, action |-> "", champion |-> None, score |-> 0,
                   time_taken |-> 0,
                   extras |-> [bonuses |-> <<>>, streak |-> 0, combo |-> 0,
                               base |-> 0, time_bonus |-> 0]]
        NoResult == [status |-> "", raised_in |-> "", player_move |-> NoMove,
                     ai_move |-> None,
                     current_score |-> 0, game_complete |-> FALSE,
                     final_score |-> None]
    IN  IF actions.raised
        THEN [game_state |-> game_state, result |-> [NoResult EXCEPT !.status = "raised",
                                                   !.raised_in = "get_available_actions"]]
        ELSE IF champion \notin Range(actions.available_champions)
        THEN [game_state |-> game_state, result |-> [NoResult EXCEPT !.status = "error"]]
        ELSE IF ai.raised
        THEN [game_state |-> g2,
              result |-> [NoResult EXCEPT !.status = "raised",
                                          !.raised_in = "_ai_make_move"]]
        ELSE [game_state |-> IF game_complete THEN done.game_state ELSE g3,
              result |-> [status |-> "ok",
                          raised_in |-> "",
                          player_move |-> move_record,
                          ai_move |-> ai.champion,
                          current_score |-> g3.score,
                          game_complete |-> game_complete,
                          final_score |-> IF game_complete
                                          THEN done.final_score.total_score
                                          ELSE None]]

\* ------------------------------------------------------------------------
\* Inputs of the calls
\* ------------------------------------------------------------------------

\* pool sizes: pools that run out in phase 0 and in phase 1 (after the
\* player's move and before it), and a pool that lasts beyond the draft
PoolSizes == {1, 2, 3, MaxPool}

\* time_taken of a move, in seconds; 30 is the default of make_move
TimeInputs == {30, 5}

\* indices random.choice may return
DrawInputs == {0, 4, 9}

\* ranks in the full recommendation list the player chooses from
RankInputs == {0, 1, 3}

\* a champion of no pool: the champions of a pool of n are 1..n
UnknownChampion == 0

\* champions submitted to make_move in a session state: recommended ones, one
\* beyond the first UiLimit available ones, the first entry of each pick/ban
\* list and an unknown one
InputChampions(game_state, full) ==
    LET avail == Available(game_state)
        lists == {game_state.player_picks, game_state.player_bans,
                  game_state.ai_picks, game_state.ai_bans}
    IN  {full[r + 1].champion : r \in {q \in RankInputs : q < Len(full)}}
        \cup (IF Len(avail) > UiLimit THEN {avail[UiLimit + 1]} ELSE {})
        \cup {Head(l) : l \in {m \in lists : m # <<>>}}
        \cup {UnknownChampion}

\* the draws random.choice can make after the player took one available champion
DrawsOf(game_state) ==
    {d \in DrawInputs :
        d < Max(1, Min(AiBand(game_state.difficulty), Len(Available(game_state)) - 1))}

\* number of non-default inputs of a move: the default is the best
\* recommendation, made in 30 seconds, answered by the first draw.  A move
\* that is rejected is submitted with the default time and draw only
DeviationsOf(actions, full, champion, time_taken, draw) ==
    LET others == (IF time_taken = 30 THEN 0 ELSE 1) + (IF draw = 0 THEN 0 ELSE 1)
    IN  IF actions.raised \/ champion \notin Range(actions.available_champions)
        THEN (IF others = 0 THEN 0 ELSE MaxDeviations + 1)
        ELSE (IF champion = full[1].champion THEN 0 ELSE 1) + others

\* a call that changed nothing is explored as the last call of a run: every
\* continuation of it is a continuation of the state before it
Live ==
    \/ result.op \in {"none", "start_new_game"}
    \/ /\ result.op = "make_move"
       /\ \/ result.status = "ok"
          \/ result.value.raised_in = "_ai_make_move"

\* ------------------------------------------------------------------------
\* Actions
\* ------------------------------------------------------------------------

Init ==
    /\ calls = <<>>
    /\ graph = ReferenceGraph
    /\ all_champions \in {[i \in 1..n |-> i] : n \in PoolSizes}
    /\ active_games = << >>
    /\ now = 0
    /\ result = [op |-> "none", game_id |-> None, args |-> <<>>, status |-> "",
                 value |-> <<>>]
    /\ started = 0
    /\ deviations = 0

\* start_new_game: the game id is the clock reading; the clock may stand
\* still until the next reading
StartNewGame(difficulty) ==
    /\ Live
    /\ started < MaxGames
    /\ LET game_id == now
           game_state == NewGameState(difficulty, now)
       IN  /\ active_games' = [id \in DOMAIN active_games \cup {game_id} |->
                                  IF id = game_id THEN game_state ELSE active_games[id]]
           /\ result' = [op |-> "start_new_game", game_id |-> game_id,
                         args |-> [difficulty |-> difficulty], status |-> "ok", value |-> game_state]
    /\ now' \in (IF started + 1 < MaxGames THEN {now, now + 1} ELSE {now + 1})
    /\ started' = started + 1
    /\ deviations + (IF started = 0 THEN 0 ELSE 1) <= MaxDeviations
    /\ deviations' = deviations + (IF started = 0 THEN 0 ELSE 1)
    /\ UNCHANGED <<calls, graph, all_champions>>

\* what a get_available_actions call on a session returns or raises
ActionsResult(game_id, game_state) ==
    LET actions == get_available_actions(game_state)
    IN  [op |-> "get_available_actions", game_id |-> game_id, args |-> <<>>,
         status |-> IF actions.raised THEN "raised" ELSE "ok",
         value |-> IF actions.raised THEN <<>> ELSE actions]

GetAvailableActions(game_id) ==
    /\ Live
    /\ game_id \in DOMAIN active_games
    /\ result' = ActionsResult(game_id, active_games[game_id])
    /\ UNCHANGED <<calls, graph, all_champions, active_games, now, started, deviations>>

\* the outcomes of the make_move calls on a session for the inputs and draws
\* that differ from the default ones in at most budget places
MoveOutcomes(game_state, budget, clock) ==
    LET full    == PlayerRecommendations(game_state)
        actions == get_available_actions(game_state)
        inputs  == {i \in InputChampions(game_state, full) \X TimeInputs
                             \X DrawsOf(game_state) :
                       DeviationsOf(actions, full, i[1], i[2], i[3]) <= budget}
    IN  {[champion |-> i[1], time_taken |-> i[2],
          cost |-> DeviationsOf(actions, full, i[1], i[2], i[3]),
          out  |-> make_move(game_state, actions, i[1], i[2], i[3], clock)] :
            i \in inputs}

\* make_move that writes the session it leaves to every session of the registry
MakeMove_OnEverySession(game_id) ==
    /\ Live
    /\ game_id \in DOMAIN active_games
    /\ \E o \in MoveOutcomes(active_games[game_id], MaxDeviations - deviations, now) :
          /\ deviations' = deviations + o.cost
          /\ active_games' = [id \in DOMAIN active_games |-> o.out.game_state]
          /\ result' = [op |-> "make_move", game_id |-> game_id,
                        args |-> [champion |-> o.champion, time_taken |-> o.time_taken],
                        status |-> o.out.result.status, value |-> o.out.result]
          /\ now' = IF o.out.result.game_complete THEN now + 1 ELSE now
    /\ UNCHANGED <<calls, graph, all_champions, started>>

MakeMove(game_id) ==
    /\ Live
    /\ game_id \in DOMAIN active_games
    /\ \E o \in MoveOutcomes(active_games[game_id], MaxDeviations - deviations, now) :
          /\ deviations' = deviations + o.cost
          /\ active_games' = [active_games EXCEPT ![game_id] = o.out.game_state]
          /\ result' = [op |-> "make_move", game_id |-> game_id,
                        args |-> [champion |-> o.champion, time_taken |-> o.time_taken],
                        status |-> o.out.result.status, value |-> o.out.result]
          /\ now' = IF o.out.result.game_complete THEN now + 1 ELSE now
    /\ UNCHANGED <<calls, graph, all_champions, started>>

Next ==
    \/ \E difficulty \in Difficulties : StartNewGame(difficulty)
    \/ \E game_id \in DOMAIN active_games : GetAvailableActions(game_id)
    \/ \E game_id \in DOMAIN active_games : MakeMove(game_id)

Spec == Init /\ [][Next]_vars

\* ------------------------------------------------------------------------
\* Properties
\* ------------------------------------------------------------------------

\* the champions some side of a session has picked or banned
Taken(game_state) ==
    Range(game_state.player_picks) \cup Range(game_state.player_bans)
    \cup Range(game_state.ai_picks) \cup Range(game_state.ai_bans)

\* the four pick/ban lists of a session, one after the other
AllEntries(game_state) ==
    game_state.player_picks \o game_state.player_bans
    \o game_state.ai_picks \o game_state.ai_bans

\* C1: every successful make_move raises the phase index by exactly 1, a
\* rejected one by 0, and final results are produced on the call that moves
\* the index from 19 to 20 and on no other call
C1_PhaseAdvancesToTerminal ==
    [][result'.op = "make_move" =>
         LET before == active_games[result'.game_id]
             after  == active_games'[result'.game_id]
             finalized == result'.value.final_score # None
                          \/ after.completed_at # before.completed_at
         IN  /\ result'.status = "ok" => after.current_phase = before.current_phase + 1
             /\ result'.status = "error" => after.current_phase = before.current_phase
             /\ finalized <=> (before.current_phase = 19 /\ after.current_phase = 20)
      ]_vars

\* C2: a make_move on a session whose phase index has reached 20 leaves the
\* session as it is, so the phase index never exceeds 20
C2_TerminalReadOnly ==
    [][(result'.op = "make_move"
        /\ active_games[result'.game_id].current_phase >= 20)
          => active_games'[result'.game_id] = active_games[result'.game_id]
      ]_vars

\* C3: a make_move with a champion that is in one of the four pick/ban lists
\* returns the invalid-move error and leaves the session unchanged
C3_TakenChampionRejected ==
    [][(result'.op = "make_move"
        /\ result'.args.champion \in Taken(active_games[result'.game_id]))
          => /\ result'.status = "error"
             /\ active_games'[result'.game_id] = active_games[result'.game_id]
      ]_vars

\* C4: no champion is in two of the four pick/ban lists of a session or twice
\* in one of them, and the AI's move of a phase is not the champion the player
\* chose in that phase
C4_ListsDisjoint ==
    /\ \A g \in DOMAIN active_games :
          Cardinality(Range(AllEntries(active_games[g])))
              = Len(AllEntries(active_games[g]))
    /\ (result.op = "make_move" /\ result.status = "ok")
          => result.value.ai_move # result.value.player_move.champion

\* a full draft has been made: both sides hold picks and bans
C4_Witness ==
    \E g \in DOMAIN active_games :
       /\ active_games[g].current_phase >= 20
       /\ active_games[g].player_picks # <<>> /\ active_games[g].player_bans # <<>>
       /\ active_games[g].ai_picks # <<>> /\ active_games[g].ai_bans # <<>>
       /\ result.op = "make_move" /\ result.status = "ok"

\* number of ban phases before phase k
BansBefore(k) == Cardinality({i \in 0..(k - 1) : i \in {0, 1, 2, 5, 6, 11, 12}})

\* C5: a logged move is a ban exactly at the phases 0, 1, 2, 5, 6, 11, 12, and
\* at phase index k each side holds as many bans as there are ban phases
\* before k and k minus that many picks
C5_KindsAndCounts ==
    \A g \in DOMAIN active_games :
       LET game_state == active_games[g]
           k == game_state.current_phase
       IN  /\ \A i \in 1..Len(game_state.moves_evaluated) :
                 LET m == game_state.moves_evaluated[i]
                 IN  (m.action = "ban") <=> (m.phase \in {0, 1, 2, 5, 6, 11, 12})
           /\ Len(game_state.player_bans) = BansBefore(k)
           /\ Len(game_state.ai_bans) = BansBefore(k)
           /\ Len(game_state.player_picks) = k - BansBefore(k)
           /\ Len(game_state.ai_picks) = k - BansBefore(k)

\* the session after the player's champion is appended to the list of the phase
AfterPlayerMove(game_state, champion) ==
    IF game_state.current_phase \in {0, 1, 2, 5, 6, 11, 12}
    THEN [game_state EXCEPT !.player_bans = Append(@, champion)]
    ELSE [game_state EXCEPT !.player_picks = Append(@, champion)]

\* the recommendations for the AI's side (team 2 of the draft in which the
\* player is team 1) over the pool that remains after the player's move
OpponentSideRecommendations(game_state, champion) ==
    LET moved == AfterPlayerMove(game_state, champion)
    IN  Recommend(ActionType(game_state.current_phase), PlayerDraftState(moved), 2,
                  Available(moved))

\* C6: in every successful make_move the AI's champion is among the first 10
\* (easy), the first 5 (medium) or is the first (hard, pro) of the
\* recommendations for the AI's side over the pool left by the player's move
C6_AiMoveWithinBand ==
    [][(result'.op = "make_move" /\ result'.status = "ok") =>
         LET before == active_games[result'.game_id]
             list == OpponentSideRecommendations(before, result'.args.champion)
             band == CASE before.difficulty = "easy"   -> 10
                       [] before.difficulty = "medium" -> 5
                       [] OTHER                        -> 1
         IN  \E i \in 1..Min(band, Len(list)) : list[i].champion = result'.value.ai_move
      ]_vars

\* C7: get_available_actions returns the first min(k, n) of the n
\* recommendations for the player's side, k being 5, 3, 1, 0 for easy, medium,
\* hard, pro, and leaves the session unchanged
C7_HintsByDifficulty ==
    [][result'.op = "get_available_actions" =>
         LET game_state == active_games[result'.game_id]
             k == CASE game_state.difficulty = "easy"   -> 5
                    [] game_state.difficulty = "medium" -> 3
                    [] game_state.difficulty = "hard"   -> 1
                    [] OTHER                            -> 0
         IN  /\ result'.status = "ok"
             /\ result'.value.recommendations = Take(PlayerRecommendations(game_state), k)
             /\ active_games' = active_games
      ]_vars

\* C8: a move is graded by the rank of the champion in the full list of
\* recommendations for the player's side, whatever the difficulty: points and
\* counters are those of score_pick on that list
C8_GradedOnFullList ==
    [][(result'.op = "make_move" /\ result'.status = "ok") =>
         LET before == active_games[result'.game_id]
             after  == active_games'[result'.game_id]
             graded == score_pick(result'.args.champion, PlayerRecommendations(before),
                                  result'.args.time_taken, before)
         IN  /\ result'.value.player_move.score = graded.score
             /\ after.streak_count = graded.game_state.streak_count
             /\ after.combo_count = graded.game_state.combo_count
             /\ after.perfect_moves = graded.game_state.perfect_moves
      ]_vars

\* the combo bonus is among the bonuses of a logged move
ComboAwarded(move) ==
    \E i \in 1..Len(move.extras.bonuses) : move.extras.bonuses[i].name = "Combo x3"

\* C10: the combo bonus is awarded on a move only when that move and the two
\* moves logged before it were all rank 0 (base 100)
C10_ComboOnUnbrokenStreak ==
    \A g \in DOMAIN active_games :
       LET moves == active_games[g].moves_evaluated
       IN  \A i \in 1..Len(moves) :
              ComboAwarded(moves[i]) =>
                 /\ i >= 3
                 /\ \A j \in (i - 2)..i : moves[j].extras.base = 100

\* ------------------------------------------------------------------------
\* score_pick on its own: lists of every length up to MaxRecLen, a champion in
\* or outside the list, sessions with any small counters
\* ------------------------------------------------------------------------

MaxRecLen == 10

MaxCounter == 3

\* a list of n recommendations: champion n + 1 - i has rank i - 1
ScoreList(n) == [i \in 1..n |-> [champion |-> n + 1 - i, win_rate_impact |-> 0]]

InitScore ==
    /\ calls = <<>>
    /\ graph = ReferenceGraph
    /\ all_champions = <<>>
    /\ \E s \in 0..MaxCounter, p \in 0..MaxCounter, c \in 0..MaxCounter :
          active_games = (0 :> [NewGameState("easy", 0) EXCEPT !.streak_count = s,
                                                           !.perfect_moves = p,
                                                           !.combo_count = c])
    /\ now = 0
    /\ result = [op |-> "none", game_id |-> None, args |-> <<>>, status |-> "",
                 value |-> <<>>]
    /\ started = 1
    /\ deviations = 0

\* what one score_pick call on session 0 returns, and the session after it
ScoreOutcome(recommendations, champion, time_taken) ==
    LET out == score_pick(champion, recommendations, time_taken, active_games[0])
    IN  [result |-> [op |-> "score_pick", game_id |-> 0,
                     args |-> [champion |-> champion, time_taken |-> time_taken,
                               recommendations |-> recommendations],
                     status |-> "ok",
                     value |-> [score |-> out.score, extras |-> out.extras]],
         game_state |-> out.game_state]

ScorePick ==
    /\ result.op = "none"
    /\ \E n \in 0..MaxRecLen, champion \in 0..(MaxRecLen + 1), time_taken \in TimeInputs :
          LET o == ScoreOutcome(ScoreList(n), champion, time_taken)
          IN  /\ result' = o.result
              /\ active_games' = [active_games EXCEPT ![0] = o.game_state]
    /\ UNCHANGED <<calls, graph, all_champions, now, started, deviations>>

SpecScore == InitScore /\ [][ScorePick]_vars

\* the rank of the champion of a score_pick call in the list it was given, or None
GivenRank ==
    LET recs == result.args.recommendations
        at   == {i \in 1..Len(recs) : recs[i].champion = result.args.champion}
    IN  IF at = {} THEN None ELSE (CHOOSE i \in at : \A j \in at : i <= j) - 1

\* C9: the base points of score_pick are 0 when the champion is not in the
\* list it is given, 100 for rank 0, 75 for ranks 1 and 2, 50 for ranks 3 to 5
\* and 25 for every rank of 6 or more
C9_BasePointsByRank ==
    result.op = "score_pick" =>
       result.value.extras.base =
          CASE GivenRank = None  -> 0
            [] GivenRank = 0     -> 100
            [] GivenRank \in 1..2 -> 75
            [] GivenRank \in 3..5 -> 50
            [] OTHER             -> 25

\* a champion of rank 6 or more was graded with 25 base points
C9_Witness ==
    /\ result.op = "score_pick"
    /\ GivenRank # None /\ GivenRank >= 6
    /\ result.value.extras.base = 25

\* ------------------------------------------------------------------------
\* Two sessions in the same state, graded move by move: the grading part of
\* make_move (score_pick, the move record, the score) without the draft
\* ------------------------------------------------------------------------

\* number of graded moves of a session
MaxMoves == 4

\* ranks of the graded champions: the best one, a good one (the streak is
\* lowered), an acceptable one and one that is not in the list (the streak
\* is reset)
MoveRanks == RankInputs \cup {None}

\* counters a session can hold: a streak is made of perfect moves, a combo
\* takes a streak of three
SessionCounters ==
    {c \in [streak_count : 0..MaxCounter, perfect_moves : 0..MaxCounter,
            combo_count : 0..MaxCounter] :
        /\ c.streak_count <= c.perfect_moves
        /\ c.combo_count <= Max(0, c.perfect_moves - 2)}

InitPair ==
    /\ calls = <<>>
    /\ graph = ReferenceGraph
    /\ all_champions = <<>>
    /\ \E c \in SessionCounters :
          LET game_state == [NewGameState("easy", 0) EXCEPT
                                !.streak_count = c.streak_count,
                                !.perfect_moves = c.perfect_moves,
                                !.combo_count = c.combo_count]
          IN  active_games = (0 :> game_state) @@ (1 :> game_state)
    /\ now = 0
    /\ result = [op |-> "none", game_id |-> None, args |-> <<>>, status |-> "",
                 value |-> <<>>]
    /\ started = 2
    /\ deviations = 0

\* the session after make_move graded and recorded a move (lines 381 to 402)
GradedMove(game_state, recommendations, champion, time_taken) ==
    LET scored == score_pick(champion, recommendations, time_taken, game_state)
        move_record == [phase |-> game_state.current_phase,
                        action |-> ActionType(game_state.current_phase),
                        champion |-> champion,
                        score |-> scored.score,
                        time_taken |-> time_taken,
                        extras |-> scored.extras]
    IN  [scored.game_state EXCEPT !.moves_evaluated = Append(@, move_record),
                                  !.score = @ + scored.score]

\* time_taken of the moves of a run: that of its first move
TimesOfRun ==
    IF active_games[0].moves_evaluated = <<>> THEN TimeInputs
    ELSE {active_games[0].moves_evaluated[1].time_taken}

\* session 0 is graded on ComboLength moves, then session 1 on up to MaxMoves
GradeMove(game_id) ==
    /\ game_id \in DOMAIN active_games
    /\ Len(active_games[0].moves_evaluated) < ComboLength => game_id = 0
    /\ Len(active_games[0].moves_evaluated) = ComboLength => game_id = 1
    /\ Len(active_games[game_id].moves_evaluated) < MaxMoves
    /\ \E rank \in MoveRanks, time_taken \in TimesOfRun :
          LET recommendations == ScoreList(MaxRecLen)
              champion == IF rank = None THEN UnknownChampion ELSE MaxRecLen - rank
              after == GradedMove(active_games[game_id], recommendations, champion,
                                  time_taken)
          IN  /\ active_games' = [active_games EXCEPT ![game_id] = after]
              /\ result' = [op |-> "score_pick", game_id |-> game_id,
                            args |-> [champion |-> champion, time_taken |-> time_taken,
                                      recommendations |-> recommendations],
                            status |-> "ok",
                            value |-> after.moves_evaluated[Len(after.moves_evaluated)]]
    /\ UNCHANGED <<calls, graph, all_champions, now, started, deviations>>

SpecPair == InitPair /\ [][\E game_id \in {0, 1} : GradeMove(game_id)]_vars

\* the points of the rank-0 moves of a move log
OptimalPoints(moves) ==
    SumSeq([i \in 1..Len(moves) |->
               IF moves[i].extras.base = optimal_pick THEN moves[i].score ELSE 0])

\* the moves of a log are three rank-0 moves in a row
ThreeInARow(moves) ==
    /\ Len(moves) = ComboLength
    /\ \A i \in 1..ComboLength : moves[i].extras.base = optimal_pick

\* the moves of a log are three rank-0 moves and one other move between two of them
ThreeInterspersed(moves) ==
    /\ Len(moves) = ComboLength + 1
    /\ \E x \in 2..ComboLength :
          \A i \in 1..(ComboLength + 1) :
             (moves[i].extras.base = optimal_pick) <=> (i # x)

\* C11: from the same session state and with the same time_taken on every
\* move, three rank-0 moves in a row gain strictly more points than the three
\* rank-0 moves of a run with one other move between two of them
C11_ConsecutiveBeatsInterspersed ==
    (ThreeInARow(active_games[0].moves_evaluated)
     /\ ThreeInterspersed(active_games[1].moves_evaluated))
       => OptimalPoints(active_games[0].moves_evaluated)
            > OptimalPoints(active_games[1].moves_evaluated)

\* both runs were made and both earned a combo bonus, the interspersed one
\* after a move of rank 1
C11_Witness ==
    /\ ThreeInARow(active_games[0].moves_evaluated)
    /\ ThreeInterspersed(active_games[1].moves_evaluated)
    /\ active_games[1].moves_evaluated[2].extras.base = good_pick
    /\ ComboAwarded(active_games[0].moves_evaluated[ComboLength])
    /\ ComboAwarded(active_games[1].moves_evaluated[ComboLength + 1])

\* ------------------------------------------------------------------------
\* check_achievements and calculate_final_score on their own, on sessions
\* around the thresholds of the achievements, the bonuses and the ratings
\* ------------------------------------------------------------------------

\* points of a graded move
PointInputs == {100, 150, 200, 300}

\* final_win_probability in hundredths: the initial value, and values at and
\* next to the thresholds
ProbabilityInputs ==
    {[num |-> k, den |-> 100] : k \in {0, 50, 51, 55, 56, 65, 66, 75, 76, 89, 90, 92}}

\* a session with n graded moves, each of the given points and time_taken
GradedSession(perfect_moves, n, points, time_taken, probability) ==
    [NewGameState("easy", 0) EXCEPT
        !.perfect_moves = perfect_moves,
        !.current_phase = n,
        !.score = n * points,
        !.moves_evaluated =
            [i \in 1..n |->
                [phase |-> i - 1, action |-> ActionType(i - 1), champion |-> i,
                 score |-> points, time_taken |-> time_taken,
                 extras |-> [bonuses |-> <<>>, streak |-> 0, combo |-> 0,
                             base |-> points, time_bonus |-> 0]]],
        !.final_win_probability = probability]

InitScorer ==
    /\ calls = <<>>
    /\ graph = ReferenceGraph
    /\ all_champions = <<>>
    /\ \E n \in {9, 10}, perfect_moves \in {9, 10}, points \in PointInputs,
          time_taken \in {14, 15}, probability \in ProbabilityInputs :
          /\ perfect_moves <= n
          /\ active_games =
                (0 :> GradedSession(perfect_moves, n, points, time_taken, probability))
    /\ now = 0
    /\ result = [op |-> "none", game_id |-> None, args |-> <<>>, status |-> "",
                 value |-> <<>>]
    /\ started = 1
    /\ deviations = 0

CheckAchievements ==
    /\ LET out == check_achievements(active_games[0])
       IN  /\ active_games' = [active_games EXCEPT ![0] = out.game_state]
           /\ result' = [op |-> "check_achievements", game_id |-> 0, args |-> <<>>,
                         status |-> "ok", value |-> out.new_achievements]
    /\ UNCHANGED <<calls, graph, all_champions, now, started, deviations>>

CalculateFinalScore ==
    /\ result' = [op |-> "calculate_final_score", game_id |-> 0, args |-> <<>>,
                  status |-> "ok", value |-> calculate_final_score(active_games[0])]
    /\ UNCHANGED <<calls, graph, all_champions, active_games, now, started, deviations>>

NextScorer ==
    \/ CheckAchievements
    \/ CalculateFinalScore

SpecScorer == InitScorer /\ [][NextScorer]_vars

\* the achievements a session has earned: 10 perfect moves, 10 graded moves
\* with a mean time_taken below 15, a final win probability of 0.9
Earned(game_state) ==
    LET moves == game_state.moves_evaluated
        wp == game_state.final_win_probability
    IN  (IF game_state.perfect_moves >= 10 THEN {"flawless"} ELSE {})
        \cup (IF Len(moves) >= 10
                 /\ SumSeq([i \in 1..Len(moves) |-> moves[i].time_taken]) < 15 * Len(moves)
              THEN {"speedster"} ELSE {})
        \cup (IF 10 * wp.num >= 9 * wp.den THEN {"draft_god"} ELSE {})

C14_FinalScore ==
    [][result'.op = "calculate_final_score" =>
         LET game_state == active_games[0]
             moves == game_state.moves_evaluated
             wp == game_state.final_win_probability
             achs == game_state.achievements
             points == SumSeq([i \in 1..Len(moves) |-> moves[i].score])
             wpBonus == IF 100 * wp.num > 75 * wp.den THEN 800
                        ELSE IF 100 * wp.num > 65 * wp.den THEN 500
                        ELSE IF 100 * wp.num > 55 * wp.den THEN 300
                        ELSE IF 100 * wp.num > 50 * wp.den THEN 100
                        ELSE 0
             rewards == SumSeq([i \in 1..Len(achs) |->
                                   CASE achs[i] = "flawless"  -> 500
                                     [] achs[i] = "speedster" -> 125
                                     [] achs[i] = "draft_god" -> 300
                                     [] OTHER                 -> 0])
             total == points + wpBonus + rewards
             label == IF total >= 3000 THEN <<"Legendary", "S+">>
                      ELSE IF total >= 2000 THEN <<"Master", "S">>
                      ELSE IF total >= 1500 THEN <<"Diamond", "A">>
                      ELSE IF total >= 1000 THEN <<"Platinum", "B">>
                      ELSE <<"Gold", "C">>
         IN  /\ result'.value.total_score = total
             /\ <<result'.value.rating, result'.value.rank>> = label
             /\ active_games' = active_games
      ]_vars

\* the final score of a session that holds the three achievements and has a
\* win probability bonus
C14_Witness ==
    /\ result.op = "calculate_final_score"
    /\ result.value.achievement_bonus = 925
    /\ result.value.win_probability_bonus = 800
    /\ result.value.total_score >= 3000

\* ------------------------------------------------------------------------
\* A ChampionGraph built from small corpora, and the predictor and the end of
\* a session over it
\* ------------------------------------------------------------------------

\* number of matches of a corpus
MaxMatches == 3

\* size of a team of a match
TeamSize == 5

\* a match of the team of champions first..first+4 against the next five
Match(first, winner) ==
    [draft |-> [picks |-> [k \in 1..(2 * TeamSize) |->
                              [champion |-> first + k - 1,
                               team_id |-> IF k <= TeamSize THEN 1 ELSE 2,
                               type |-> "pick"]]],
     team_stats |-> <<[team_id |-> 1, win |-> winner = 1],
                      [team_id |-> 2, win |-> winner = 2]>>]

\* the matches of the corpora: three pairs of teams, the first team winning,
\* and the first pair of teams with the second team winning
MatchInputs ==
    {Match(1, 1), Match(1, 2), Match(1 + 2 * TeamSize, 1), Match(1 + 4 * TeamSize, 1)}

RECURSIVE SeqsUpTo(_, _)
SeqsUpTo(S, n) ==
    IF n = 0 THEN {<<>>}
    ELSE LET shorter == SeqsUpTo(S, n - 1)
         IN  shorter \cup {Append(s, x) : s \in shorter, x \in S}

\* parsed_matches: every sequence of up to MaxMatches matches
Corpora == SeqsUpTo(MatchInputs, MaxMatches)

Reverse(s) == [i \in 1..Len(s) |-> s[Len(s) + 1 - i]]

\* orders of a corpus: as it is, reversed, and with its first match last
Reorderings(parsed_matches) ==
    {parsed_matches, Reverse(parsed_matches)}
    \cup (IF parsed_matches = <<>> THEN {}
          ELSE {Append(Tail(parsed_matches), Head(parsed_matches))})

\* champions first..last in order
Champions(first, last) == [i \in 1..(last - first + 1) |-> first + i - 1]

\* rosters of a DraftState: none, one champion, a team, and 13 champions of
\* first teams and of second teams
RosterInputs ==
    {<<>>, <<1>>, <<1 + TeamSize>>,
     Champions(1, TeamSize), Champions(1 + TeamSize, 2 * TeamSize),
     Champions(1, TeamSize) \o Champions(1 + 2 * TeamSize, 3 * TeamSize)
         \o Champions(1 + 4 * TeamSize, 3 + 4 * TeamSize),
     Champions(1 + TeamSize, 2 * TeamSize) \o Champions(1 + 3 * TeamSize, 4 * TeamSize)
         \o Champions(1 + 5 * TeamSize, 3 + 5 * TeamSize)}

\* champions without games
FirstUnplayed == 1 + 6 * TeamSize

\* DraftStates: two rosters without a common champion, without bans or with
\* the 7 bans a side has made when its 13th pick is made
DraftStateInputs ==
    {[team1_picks |-> r[1], team2_picks |-> r[2],
      team1_bans |-> IF b THEN Champions(FirstUnplayed, FirstUnplayed + 6) ELSE <<>>,
      team2_bans |-> IF b THEN Champions(FirstUnplayed + 7, FirstUnplayed + 13) ELSE <<>>] :
        r \in {q \in RosterInputs \X RosterInputs : Range(q[1]) \cap Range(q[2]) = {}},
        b \in BOOLEAN}

\* the champions of the corpora and 16 without games, in order
AllInputChampions == Champions(1, FirstUnplayed + 15)

\* the champions of a DraftState
Drafted(draft_state) ==
    Range(draft_state.team1_picks) \cup Range(draft_state.team2_picks)
    \cup Range(draft_state.team1_bans) \cup Range(draft_state.team2_bans)

\* candidate pools passed with a DraftState: the champions that are neither
\* picked nor banned (all of them, the first three, none) and, for a caller
\* that does not filter, all champions
PoolInputs(draft_state) ==
    LET free == Filter(AllInputChampions, Drafted(draft_state))
    IN  {free, Take(free, 3), <<>>, AllInputChampions}

InitGraph ==
    /\ calls = <<>>
    /\ graph = EmptyGraph
    /\ all_champions = <<>>
    /\ active_games = << >>
    /\ now = 0
    /\ result = [op |-> "none", game_id |-> None, args |-> <<>>, status |-> "",
                 value |-> <<>>]
    /\ started = 0
    /\ deviations = 0

\* build_from_matches on a new graph, or again on the graph of the last call
\* with the same matches in some order
BuildFromMatches ==
    /\ result.op \in {"none", "build_from_matches"}
    /\ \E parsed_matches \in (IF result.op = "none" THEN Corpora
                              ELSE Reorderings(result.args.parsed_matches)) :
          /\ graph' = build_from_matches(graph, parsed_matches)
          /\ result' = [op |-> "build_from_matches", game_id |-> None,
                        args |-> [parsed_matches |-> parsed_matches],
                        status |-> "ok", value |-> <<>>]
    /\ UNCHANGED <<calls, all_champions, active_games, now, started, deviations>>

PredictWinProbability ==
    /\ result.op \in {"none", "build_from_matches"}
    /\ \E draft_state \in DraftStateInputs :
          result' = [op |-> "predict_win_probability", game_id |-> None,
                     args |-> [draft_state |-> draft_state],
                     status |-> "ok", value |-> predict_win_probability(draft_state)]
    /\ UNCHANGED <<calls, graph, all_champions, active_games, now, started, deviations>>

\* recommend_pick or recommend_ban
RecommendAction(action_type) ==
    /\ result.op \in {"none", "build_from_matches"}
    /\ \E draft_state \in DraftStateInputs, team \in {1, 2} :
          \E available \in PoolInputs(draft_state) :
             result' = [op |-> "recommend_" \o action_type, game_id |-> None,
                        args |-> [draft_state |-> draft_state, team |-> team,
                                  available_champions |-> available],
                        status |-> "ok",
                        value |-> Recommend(action_type, draft_state, team, available)]
    /\ UNCHANGED <<calls, graph, all_champions, active_games, now, started, deviations>>

\* sessions whose 20th move was just made: 13 picks and 7 bans a side
FinishedSessions ==
    {[GradedSession(perfect_moves, TotalPhases, 100, time_taken, [num |-> 0, den |-> 1])
         EXCEPT !.player_picks = d.team1_picks, !.player_bans = d.team1_bans,
                !.ai_picks = d.team2_picks, !.ai_bans = d.team2_bans] :
        d \in {s \in DraftStateInputs :
                  Len(s.team1_picks) = 13 /\ Len(s.team2_picks) = 13
                  /\ s.team1_bans # <<>>},
        perfect_moves \in {9, 10}, time_taken \in {14, 15}}

CompleteGame ==
    /\ result.op \in {"none", "build_from_matches"}
    /\ \E game_state \in FinishedSessions :
          LET out == _complete_game(game_state, now)
          IN  /\ active_games' = (0 :> out.game_state)
              /\ result' = [op |-> "_complete_game", game_id |-> 0, args |-> <<>>,
                            status |-> "ok",
                            value |-> [final_score |-> out.final_score,
                                       win_probability |-> out.win_probability,
                                       new_achievements |-> out.new_achievements]]
    /\ now' = now + 1
    /\ UNCHANGED <<calls, graph, all_champions, started, deviations>>

NextGraph ==
    \/ BuildFromMatches
    \/ PredictWinProbability
    \/ \E action_type \in {"pick", "ban"} : RecommendAction(action_type)
    \/ CompleteGame

SpecGraph == InitGraph /\ [][NextGraph]_vars

\* C13: when a session completes with a final win probability of at least 0.9,
\* the session holds draft_god when the final score is calculated: the
\* achievement bonus of the final score is the 300 of draft_god plus the
\* rewards of the session's other achievements
C13_DraftGodInFinalScore ==
    (result.op = "_complete_game"
     /\ 10 * result.value.win_probability.num >= 9 * result.value.win_probability.den)
    => LET achs == active_games[0].achievements
           others == SelectSeq(achs, LAMBDA a : a # "draft_god")
       IN  /\ active_games[0].final_win_probability = result.value.win_probability
           /\ "draft_god" \in Range(achs)
           /\ "draft_god" \in Range(result.value.new_achievements)
           /\ Len(others) = Len(achs) - 1
           /\ result.value.final_score.achievement_bonus =
                 300 + SumSeq([i \in 1..Len(others) |->
                                  CASE others[i] = "flawless"  -> 500
                                    [] others[i] = "speedster" -> 125
                                    [] OTHER                   -> 0])
           /\ result.value.final_score.total_score =
                 result.value.final_score.base_score
                 + result.value.final_score.win_probability_bonus
                 + result.value.final_score.achievement_bonus

\* a session completed with a final win probability of at least 0.9 on a graph
\* built from matches
C13_Witness ==
    /\ result.op = "_complete_game"
    /\ graph.win_rates # <<>>
    /\ 10 * result.value.win_probability.num >= 9 * result.value.win_probability.den
    /\ result.value.win_probability.num <= result.value.win_probability.den
    /\ result.value.final_score.achievement_bonus >= 300

\* C15: predict_win_probability returns two values that sum to 1 and lie each
\* between 0 and 1, for every DraftState and every graph built from a corpus;
\* with no pick on either side both values are 0.5
C15_ProbabilitiesInUnitInterval ==
    result.op = "predict_win_probability"
    => LET team1 == result.value.team1
           team2 == result.value.team2
           draft_state == result.args.draft_state
       IN  /\ team1.den > 0
           /\ team2.den = team1.den
           /\ team1.num + team2.num = team1.den
           /\ 0 <= team1.num /\ team1.num <= team1.den
           /\ 0 <= team2.num /\ team2.num <= team2.den
           /\ (draft_state.team1_picks = <<>> /\ draft_state.team2_picks = <<>>)
                 => (2 * team1.num = team1.den /\ 2 * team2.num = team2.den)

\* a result of recommend_pick or recommend_ban
IsRecommendation == result.op \in {"recommend_pick", "recommend_ban"}

\* at most TopN entries, each one's impact at most the one before it
ShortAndSorted(recommendations) ==
    /\ Len(recommendations) <= TopN
    /\ \A i \in 1..(Len(recommendations) - 1) :
          recommendations[i].win_rate_impact >= recommendations[i + 1].win_rate_impact

\* no recommended champion is among the picks or the bans of the DraftState
NoneDrafted(recommendations, draft_state) ==
    \A i \in 1..Len(recommendations) :
        recommendations[i].champion \notin Drafted(draft_state)

\* C16, as stated: for every DraftState, team and pool passed to them,
\* recommend_pick and recommend_ban return at most 10 entries, non-increasing
\* by impact, none of them a champion picked or banned in the DraftState
C16_RecommendationsOfAnyPool ==
    IsRecommendation
    => /\ ShortAndSorted(result.value)
       /\ NoneDrafted(result.value, result.args.draft_state)

\* C16, amended: recommend_pick and recommend_ban return at most 10 entries,
\* non-increasing by impact and all from the pool passed to them, for every
\* DraftState, team and pool; none of the entries is a champion picked or
\* banned in the DraftState when the pool holds no such champion
C16_RecommendationsOfFilteredPool ==
    IsRecommendation
    => /\ ShortAndSorted(result.value)
       /\ \A i \in 1..Len(result.value) :
             result.value[i].champion \in Range(result.args.available_champions)
       /\ Range(result.args.available_champions)
             \cap Drafted(result.args.draft_state) = {}
          => NoneDrafted(result.value, result.args.draft_state)

\* ten recommendations of different impacts from a pool of more than ten
\* champions, none picked or banned, for a DraftState with picks and bans on a
\* graph built from matches
C16_Witness ==
    /\ IsRecommendation
    /\ graph.win_rates # <<>>
    /\ result.args.draft_state.team1_picks # <<>>
    /\ result.args.draft_state.team2_picks # <<>>
    /\ result.args.draft_state.team1_bans # <<>>
    /\ Range(result.args.available_champions)
          \cap Drafted(result.args.draft_state) = {}
    /\ Len(result.args.available_champions) > TopN
    /\ Len(result.value) = TopN
    /\ result.value[1].win_rate_impact > result.value[TopN].win_rate_impact

\* the teammate pairs of a corpus with at least MinSample games together
SampledPairs(parsed_matches) ==
    LET apps == Appearances(parsed_matches)
    IN  {pair \in UNION {TeamPairs(apps[n].team_picks) : n \in 1..Len(apps)} :
            teammate_pairs(apps, pair) >= MinSample}

\* the win rate of a champion in a corpus in which it has games
CorpusWinRate(parsed_matches, c) ==
    LET apps == Appearances(parsed_matches)
    IN  (champion_wins(apps, c) * Unit) \div champion_games(apps, c)

\* C18: after build_from_matches(corpus), the synergy of every teammate pair
\* with at least 3 games together is, in both orders, the pair's win rate
\* minus the mean of the two champions' win rates in that corpus
C18_SynergyAgainstCorpusWinRates ==
    result.op = "build_from_matches"
    => LET parsed_matches == result.args.parsed_matches
           apps == Appearances(parsed_matches)
       IN  \A pair \in SampledPairs(parsed_matches) :
              LET expected ==
                      (teammate_wins(apps, pair) * Unit) \div teammate_pairs(apps, pair)
                      - (CorpusWinRate(parsed_matches, pair[1])
                         + CorpusWinRate(parsed_matches, pair[2])) \div 2
              IN  /\ synergies(pair[1], pair[2]) = expected
                  /\ synergies(pair[2], pair[1]) = expected

\* C19: build_from_matches called again on the same graph with the same corpus
\* leaves win rates, pick rates, synergies and counters as the first call left
\* them, and a new graph built from the corpus in another order holds the
\* same four mappings
C19_BuildIdempotent ==
    [][result'.op = "build_from_matches" =>
         /\ (result.op = "build_from_matches" /\ result'.args = result.args)
               => graph' = graph
         /\ result.op = "none"
               => \A reordered \in Reorderings(result'.args.parsed_matches) :
                     build_from_matches(graph, reordered) = graph'
      ]_vars

\* C17: in every reachable session state, also with no or one champion left
\* unpicked and unbanned, get_available_actions returns a result for every
\* difficulty and make_move returns its result or the invalid-move error:
\* no call ends with an exception
C17_DegenerateInputsNeverFail ==
    /\ result.op = "get_available_actions"
          => /\ result.status = "ok"
             /\ Len(result.value.recommendations)
                   <= Len(Available(active_games[result.game_id]))
    /\ result.op = "make_move" => result.status \in {"ok", "error"}

\* GameState(): final_win_probability = 0.0
InitialWinProbability == [num |-> 0, den |-> 1]

\* C20: a session below phase 20 has no completion time and its initial final
\* win probability; a session at phase 20 has a completion time, and the call
\* that completes it stores as final win probability the prediction for the
\* completed rosters for the player's side, which stays until a later
\* completing call
C20_CompletionFieldsWhenTerminal ==
    [][\A game_id \in DOMAIN active_games' :
          LET game_state == active_games'[game_id]
              completing == /\ result'.op = "make_move"
                            /\ result'.game_id = game_id
                            /\ result'.status = "ok"
                            /\ result'.value.game_complete
          IN  /\ game_state.current_phase < TotalPhases
                    => /\ game_state.completed_at = None
                       /\ game_state.final_win_probability = InitialWinProbability
                       /\ ~completing
              /\ game_state.current_phase >= TotalPhases
                    => game_state.completed_at # None
              /\ (game_state.current_phase = TotalPhases
                  /\ game_id \in DOMAIN active_games
                  /\ active_games[game_id].current_phase < TotalPhases)
                    => completing
              /\ completing
                    => game_state.final_win_probability =
                          predict_win_probability(PlayerDraftState(game_state)).team1
              /\ (~completing /\ game_id \in DOMAIN active_games)
                    => game_state.final_win_probability =
                          active_games[game_id].final_win_probability
      ]_vars

\* a session completed by its 20th move: 13 picks a side, a completion time and
\* the prediction for its rosters as final win probability
C20_Witness ==
    /\ result.op = "make_move"
    /\ result.status = "ok"
    /\ result.value.game_complete
    /\ LET game_state == active_games[result.game_id]
       IN  /\ game_state.current_phase = TotalPhases
           /\ Len(game_state.player_picks) = 13
           /\ Len(game_state.ai_picks) = 13
           /\ game_state.completed_at # None
           /\ game_state.final_win_probability # InitialWinProbability
           /\ game_state.final_win_probability =
                 predict_win_probability(PlayerDraftState(game_state)).team1

\* C22: score_pick adds 1 to perfect_moves and to streak_count on a move of
\* rank 0, sets streak_count to max(0, streak_count - 1) on a move of rank 1
\* or 2 and to 0 on an unranked move or a move of rank 3 or more;
\* perfect_moves and combo_count never decrease and streak_count is never
\* negative
C22_CounterUpdates ==
    [][result'.op = "score_pick" =>
         LET before == active_games[0]
             after  == active_games'[0]
             rank   == GivenRank'
         IN  /\ rank = 0
                   => /\ after.perfect_moves = before.perfect_moves + 1
                      /\ after.streak_count = before.streak_count + 1
             /\ rank \in {1, 2}
                   => after.streak_count =
                         (IF before.streak_count >= 1 THEN before.streak_count - 1 ELSE 0)
             /\ (rank = None \/ rank >= 3) => after.streak_count = 0
             /\ rank # 0 => after.perfect_moves = before.perfect_moves
             /\ after.perfect_moves >= before.perfect_moves
             /\ after.combo_count >= before.combo_count
             /\ after.streak_count >= 0
      ]_vars

\* a move of rank 1 or 2 that lowered a streak of 3 to 2
C22_Witness ==
    /\ result.op = "score_pick"
    /\ GivenRank \in {1, 2}
    /\ active_games[0].streak_count = 2
    /\ result.value.extras.streak = 2

\* the value of the named bonus in the breakdown of a move, 0 without it
BonusNamed(bonuses, name) ==
    SumSeq([i \in 1..Len(bonuses) |->
               IF bonuses[i].name = name THEN bonuses[i].val ELSE 0])

\* C24: the points score_pick returns are the base points, the time bonus
\* max(0, 30 - time_taken) * 10 counted once for every time_taken, the first
\* blood, combo and combo master bonuses that apply, and streak_count * 25
\* when the updated streak_count is above 0
C24_TimeBonusOnce ==
    result.op = "score_pick"
    => LET extras == result.value.extras
           time_taken == result.args.time_taken
           timeBonus == (IF time_taken < 30 THEN 30 - time_taken ELSE 0) * 10
       IN  /\ extras.time_bonus = timeBonus
           /\ BonusNamed(extras.bonuses, "Streak") =
                 (IF extras.streak > 0 THEN extras.streak * 25 ELSE 0)
           /\ result.value.score =
                 extras.base + timeBonus
                 + BonusNamed(extras.bonuses, "First Blood")
                 + BonusNamed(extras.bonuses, "Combo x3")
                 + BonusNamed(extras.bonuses, "Combo Master")
                 + BonusNamed(extras.bonuses, "Streak")

\* the positions of the log whose move has the named bonus
MovesWithBonus(moves, name) ==
    {k \in 1..Len(moves) :
        \E i \in 1..Len(moves[k].extras.bonuses) : moves[k].extras.bonuses[i].name = name}

\* the first position of a set of positions, or none
FirstOf(positions) ==
    IF positions = {} THEN {} ELSE {CHOOSE k \in positions : \A j \in positions : k <= j}

\* C23: in the graded moves of a session, 'First Blood' (50) is awarded on the
\* first move of rank 0 and on no other move, and 'Combo Master' (150) on the
\* first move with the combo bonus and on no other move
C23_OneTimeBonuses ==
    \A game_id \in DOMAIN active_games :
        LET moves == active_games[game_id].moves_evaluated
            perfect == {k \in 1..Len(moves) : moves[k].extras.base = optimal_pick}
        IN  /\ MovesWithBonus(moves, "First Blood") = FirstOf(perfect)
            /\ MovesWithBonus(moves, "Combo Master")
                  = FirstOf(MovesWithBonus(moves, "Combo x3"))
            /\ \A k \in MovesWithBonus(moves, "First Blood") :
                  BonusNamed(moves[k].extras.bonuses, "First Blood") = 50
            /\ \A k \in MovesWithBonus(moves, "Combo Master") :
                  BonusNamed(moves[k].extras.bonuses, "Combo Master") = 150

\* a session with two moves of rank 0 after a move of another rank and with
\* two combo bonuses: one first blood, on the second move, and one combo master
C23_Witness ==
    \E game_id \in DOMAIN active_games :
        LET moves == active_games[game_id].moves_evaluated
        IN  /\ Len(moves) >= 5
            /\ moves[1].extras.base # optimal_pick
            /\ MovesWithBonus(moves, "First Blood") = {2}
            /\ Cardinality(MovesWithBonus(moves, "Combo x3")) >= 2
            /\ Cardinality(MovesWithBonus(moves, "Combo Master")) = 1

\* the runs of equal entries of a sequence: the entry and the length of each
RECURSIVE RunsOf(_)
RunsOf(s) ==
    IF s = <<>> THEN <<>>
    ELSE LET rest == RunsOf(Tail(s))
         IN  IF rest # <<>> /\ rest[1].kind = Head(s)
             THEN <<[kind |-> Head(s), length |-> rest[1].length + 1]>> \o Tail(rest)
             ELSE <<[kind |-> Head(s), length |-> 1]>> \o rest

\* C25: read in phase order 0..19, the kinds of the moves of a session are
\* the runs 3 bans, 2 picks, 2 bans, 4 picks, 2 bans, 1 pick, and these runs
\* are all 20 actions of the draft
C25_DraftOrderRuns ==
    \A game_id \in DOMAIN active_games :
        LET moves == active_games[game_id].moves_evaluated
            draft == SelectSeq(moves, LAMBDA m : m.phase < TotalPhases)
            kinds == SubSeq([k \in 1..Len(draft) |-> draft[k].action], 1, Len(draft))
        IN  (active_games[game_id].current_phase >= TotalPhases
             /\ \A p \in 0..(TotalPhases - 1) : draft[p + 1].phase = p)
            => RunsOf(kinds) = <<[kind |-> "ban", length |-> 3],
                                 [kind |-> "pick", length |-> 2],
                                 [kind |-> "ban", length |-> 2],
                                 [kind |-> "pick", length |-> 4],
                                 [kind |-> "ban", length |-> 2],
                                 [kind |-> "pick", length |-> 1]>>

\* the four pick/ban lists of a session
ListsOf(game_state) ==
    <<game_state.player_picks, game_state.player_bans,
      game_state.ai_picks, game_state.ai_bans>>

\* C26: a make_move call either completes (one move logged, the score raised
\* by its points, one champion added for the player and one for the AI, the
\* phase advanced by one) or fails and leaves the session as it was
C26_MoveAllOrNothing ==
    [][result'.op = "make_move" =>
         LET before == active_games[result'.game_id]
             after  == active_games'[result'.game_id]
             ban    == result'.value.player_move.action = "ban"
         IN  IF result'.status = "ok"
             THEN /\ after.moves_evaluated =
                        Append(before.moves_evaluated, result'.value.player_move)
                  /\ after.score = before.score + result'.value.player_move.score
                  /\ after.current_phase = before.current_phase + 1
                  /\ result'.value.player_move.champion = result'.args.champion
                  /\ ListsOf(after) =
                        IF ban
                        THEN <<before.player_picks,
                               Append(before.player_bans, result'.args.champion),
                               before.ai_picks,
                               Append(before.ai_bans, result'.value.ai_move)>>
                        ELSE <<Append(before.player_picks, result'.args.champion),
                               before.player_bans,
                               Append(before.ai_picks, result'.value.ai_move),
                               before.ai_bans>>
             ELSE after = before
      ]_vars

\* C27: in every session the log has as many moves as the phase index, its
\* k-th move records phase k, the score is the sum of the points of the logged
\* moves, and a call leaves the moves logged before it as they were
C27_MoveLogConsistent ==
    [][\A game_id \in DOMAIN active_games' :
          LET game_state == active_games'[game_id]
              moves == game_state.moves_evaluated
          IN  /\ Len(moves) = game_state.current_phase
              /\ \A k \in 1..Len(moves) : moves[k].phase = k - 1
              /\ game_state.score = SumSeq([k \in 1..Len(moves) |-> moves[k].score])
              /\ (game_id \in DOMAIN active_games /\ result'.op # "start_new_game")
                    => LET logged == active_games[game_id].moves_evaluated
                       IN  /\ Len(logged) <= Len(moves)
                           /\ SubSeq(moves, 1, Len(logged)) = logged
      ]_vars

\* C28: make_move, get_available_actions and start_new_game for one game id
\* leave every other session of the registry as it was, whether the call
\* succeeds or fails
C28_SessionsIsolated ==
    [][result'.op \in {"make_move", "get_available_actions", "start_new_game"} =>
         \A other \in DOMAIN active_games \ {result'.game_id} :
            /\ other \in DOMAIN active_games'
            /\ active_games'[other] = active_games[other]
      ]_vars

\* a move on one of two sessions that have both moved
C28_Witness ==
    /\ result.op = "make_move"
    /\ result.status = "ok"
    /\ \E other \in DOMAIN active_games \ {result.game_id} :
          /\ active_games[other].current_phase >= 1
          /\ active_games[other].moves_evaluated # <<>>
          /\ active_games[other] # active_games[result.game_id]

\* C29: start_new_game registers the new session under an id that no session
\* of the registry has, at phase 0 with the player's turn, empty pick and ban
\* lists, score 0 and an empty log, and leaves every session of the registry
\* in it and as it was, also when two sessions start at the same clock reading
C29_NewSessionUnderNewId ==
    [][result'.op = "start_new_game" =>
         LET game_id == result'.game_id
         IN  /\ game_id \notin DOMAIN active_games
             /\ game_id \in DOMAIN active_games'
             /\ active_games'[game_id].current_phase = 0
             /\ active_games'[game_id].player_turn
             /\ ListsOf(active_games'[game_id]) = <<<<>>, <<>>, <<>>, <<>>>>
             /\ active_games'[game_id].score = 0
             /\ active_games'[game_id].moves_evaluated = <<>>
             /\ \A other \in DOMAIN active_games :
                   /\ other \in DOMAIN active_games'
                   /\ active_games'[other] = active_games[other]
      ]_vars

\* ------------------------------------------------------------------------
\* Sessions over a pool of more champions than get_available_actions lists
\* ------------------------------------------------------------------------

\* size of the pool
LargePool == 53

\* number of phases of a session that are explored
MaxPhases == 3

InitLargePool ==
    /\ calls = <<>>
    /\ graph = ReferenceGraph
    /\ all_champions = [i \in 1..LargePool |-> i]
    /\ active_games = << >>
    /\ now = 0
    /\ result = [op |-> "none", game_id |-> None, args |-> <<>>, status |-> "",
                 value |-> <<>>]
    /\ started = 0
    /\ deviations = 0

\* make_move on a session in one of its first phases
MakeEarlyMove(game_id) ==
    /\ active_games[game_id].current_phase < MaxPhases
    /\ MakeMove(game_id)

NextLargePool ==
    \/ \E difficulty \in Difficulties : StartNewGame(difficulty)
    \/ \E game_id \in DOMAIN active_games : GetAvailableActions(game_id)
    \/ \E game_id \in DOMAIN active_games : MakeEarlyMove(game_id)

SpecLargePool == InitLargePool /\ [][NextLargePool]_vars

\* C21: on a session below phase 20, make_move succeeds exactly when the
\* champion is one of all_champions that is in none of the four pick and ban
\* lists, whatever the size of the pool
C21_AvailableChampionAccepted ==
    [][(result'.op = "make_move"
        /\ active_games[result'.game_id].current_phase < TotalPhases) =>
         LET game_state == active_games[result'.game_id]
             champion == result'.args.champion
         IN  (champion \in Range(all_champions) \ Taken(game_state))
                <=> result'.status = "ok"
      ]_vars

\* ------------------------------------------------------------------------
\* make_move calls of several threads on two sessions, step by step
\* ------------------------------------------------------------------------

\* size of the pool of the two sessions
RacePool == 8

\* the threads, each making one make_move call
Callers == {1, 2, 3}

\* the registry when the calls start: two new sessions
RaceGames == (0 :> NewGameState("easy", 0)) @@ (1 :> NewGameState("easy", 1))

\* a call that has not started: its arguments, the draw random.choice will
\* make in it, and its local variables
NewCall(game_id, champion, draw) ==
    [game_id |-> game_id, champion |-> champion, time_taken |-> 30, draw |-> draw,
     pc |-> "start", status |-> "", actions |-> <<>>, score |-> 0, extras |-> <<>>,
     ai_move |-> None]

\* caller 1 moves on session 0, caller 3 on session 1, caller 2 on either;
\* the calls either take a lock of their session for their whole length or
\* take none
InitRace ==
    /\ \E serialized \in BOOLEAN, game_id \in {0, 1}, draw \in {0, 1},
          champion \in [Callers -> {1, 2}] :
          calls = [serialized |-> serialized,
                   of |-> [t \in Callers |->
                             NewCall(IF t = 1 THEN 0 ELSE IF t = 3 THEN 1 ELSE game_id,
                                     champion[t],
                                     IF t = 2 THEN draw ELSE 0)]]
    /\ graph = ReferenceGraph
    /\ all_champions = [i \in 1..RacePool |-> i]
    /\ active_games = RaceGames
    /\ now = 2
    /\ result = [op |-> "none", game_id |-> None, args |-> <<>>, status |-> "",
                 value |-> <<>>]
    /\ started = 2
    /\ deviations = 0

\* the caller is between the first and the last step of its call
Holding(t) == calls.of[t].pc \notin {"start", "done"}

\* callers that take no lock
MayStep_WithoutLock(t) == TRUE

\* a caller may take a step unless the calls are serialized and another
\* caller is within a call on the same session
MayStep(t) ==
    \/ ~calls.serialized
    \/ \A u \in Callers \ {t} :
          calls.of[u].game_id = calls.of[t].game_id => ~Holding(u)

\* the call of caller t returns or raises
Finished(t, status) ==
    /\ calls' = [calls EXCEPT !.of[t].pc = "done", !.of[t].status = status]
    /\ result' = [op |-> "make_move", game_id |-> calls.of[t].game_id,
                  args |-> [champion |-> calls.of[t].champion,
                            time_taken |-> calls.of[t].time_taken],
                  status |-> status, value |-> <<>>]

\* get_available_actions and the validation of the champion
Validate(t) ==
    /\ calls.of[t].pc = "start"
    /\ MayStep(t)
    /\ LET actions == get_available_actions(active_games[calls.of[t].game_id])
       IN  IF actions.raised THEN Finished(t, "raised")
           ELSE IF calls.of[t].champion \notin Range(actions.available_champions)
           THEN Finished(t, "error")
           ELSE /\ calls' = [calls EXCEPT !.of[t].pc = "grade",
                                          !.of[t].actions = actions]
                /\ UNCHANGED result
    /\ UNCHANGED <<graph, all_champions, active_games, now, started, deviations>>

\* score_pick: the counters of the session are updated
Grade(t) ==
    /\ calls.of[t].pc = "grade"
    /\ MayStep(t)
    /\ LET c == calls.of[t]
           scored == score_pick(c.champion, c.actions.recommendations, c.time_taken,
                                active_games[c.game_id])
       IN  /\ active_games' = [active_games EXCEPT ![c.game_id] = scored.game_state]
           /\ calls' = [calls EXCEPT !.of[t].pc = "record",
                                     !.of[t].score = scored.score,
                                     !.of[t].extras = scored.extras]
    /\ UNCHANGED <<graph, all_champions, now, result, started, deviations>>

\* the move record is appended, the score raised, the champion appended
Record(t) ==
    /\ calls.of[t].pc = "record"
    /\ MayStep(t)
    /\ LET c == calls.of[t]
           game_state == active_games[c.game_id]
           move_record == [phase |-> game_state.current_phase,
                           action |-> c.actions.action_type,
                           champion |-> c.champion,
                           score |-> c.score,
                           time_taken |-> c.time_taken,
                           extras |-> c.extras]
           g1 == [game_state EXCEPT !.moves_evaluated = Append(@, move_record),
                                    !.score = @ + c.score]
           g2 == IF c.actions.action_type = "ban"
                 THEN [g1 EXCEPT !.player_bans = Append(@, c.champion)]
                 ELSE [g1 EXCEPT !.player_picks = Append(@, c.champion)]
       IN  /\ active_games' = [active_games EXCEPT ![c.game_id] = g2]
           /\ calls' = [calls EXCEPT !.of[t].pc = "ai"]
    /\ UNCHANGED <<graph, all_champions, now, result, started, deviations>>

\* _ai_make_move on the session as it is now
AiMove(t) ==
    /\ calls.of[t].pc = "ai"
    /\ MayStep(t)
    /\ LET c == calls.of[t]
           ai == _ai_make_move(active_games[c.game_id], c.actions.action_type, c.draw)
       IN  IF ai.raised
           THEN /\ Finished(t, "raised")
                /\ UNCHANGED active_games
           ELSE /\ active_games' = [active_games EXCEPT ![c.game_id] = ai.game_state]
                /\ calls' = [calls EXCEPT !.of[t].pc = "advance",
                                          !.of[t].ai_move = ai.champion]
                /\ UNCHANGED result
    /\ UNCHANGED <<graph, all_champions, now, started, deviations>>

\* current_phase += 1 and, at phase 20, _complete_game
Advance(t) ==
    /\ calls.of[t].pc = "advance"
    /\ MayStep(t)
    /\ LET c == calls.of[t]
           g3 == [active_games[c.game_id] EXCEPT !.current_phase = @ + 1]
       IN  active_games' =
              [active_games EXCEPT ![c.game_id] =
                  IF g3.current_phase >= TotalPhases
                  THEN _complete_game(g3, now).game_state ELSE g3]
    /\ Finished(t, "ok")
    /\ UNCHANGED <<graph, all_champions, now, started, deviations>>

NextRace ==
    \E t \in Callers :
        \/ Validate(t)
        \/ Grade(t)
        \/ Record(t)
        \/ AiMove(t)
        \/ Advance(t)

SpecRace == InitRace /\ [][NextRace]_vars

\* the registry after the calls of the callers in the given order, one
\* make_move after the other
RECURSIVE SerialRun(_, _)
SerialRun(games, order) ==
    IF order = <<>> THEN games
    ELSE LET c == calls.of[Head(order)]
             game_state == games[c.game_id]
             out == make_move(game_state, get_available_actions(game_state),
                              c.champion, c.time_taken, c.draw, now)
         IN  SerialRun([games EXCEPT ![c.game_id] = out.game_state], Tail(order))

\* the registries the calls produce in their serial orders
SerialOutcomes ==
    {SerialRun(RaceGames, order) :
        order \in {o \in [1..Cardinality(Callers) -> Callers] :
                      \A i, j \in DOMAIN o : i # j => o[i] # o[j]}}

\* a session with a champion twice in its pick and ban lists or with two
\* logged moves of the same phase
Anomaly ==
    \E game_id \in DOMAIN active_games :
        LET game_state == active_games[game_id]
            lists == game_state.player_picks \o game_state.player_bans
                     \o game_state.ai_picks \o game_state.ai_bans
            moves == game_state.moves_evaluated
        IN  \/ Cardinality(Range(lists)) < Len(lists)
            \/ \E i, j \in 1..Len(moves) : i < j /\ moves[i].phase = moves[j].phase

AllDone == \A t \in Callers : calls.of[t].pc = "done"

\* C30: when the make_move calls on a session are serialized, however they
\* interleave with the calls on the other session, no session gets a champion
\* twice or two logged moves of one phase, and the registry after the calls
\* is the one of a serial order of the calls
C30_SerializedCallsAreSerial ==
    calls.serialized
    => /\ ~Anomaly
       /\ AllDone => active_games \in SerialOutcomes

\* without serialization, two calls on session 0 with the same champion have
\* interleaved: the champion is twice in the player's bans, two logged moves
\* have phase 0, and no serial order of the calls gives this registry
C30_Witness ==
    /\ ~calls.serialized
    /\ AllDone
    /\ calls.of[1].game_id = calls.of[2].game_id
    /\ calls.of[1].champion = calls.of[2].champion
    /\ LET game_state == active_games[0]
       IN  /\ game_state.player_bans = <<calls.of[1].champion, calls.of[1].champion>>
           /\ Len(game_state.moves_evaluated) = 2
           /\ game_state.moves_evaluated[1].phase = game_state.moves_evaluated[2].phase
    /\ Anomaly
    /\ active_games \notin SerialOutcomes

====
